---- MODULE Spec2Model ----
(***************************************************************************)
(* Caissa birthday-card composer: the geometry engine (mask detection,     *)
(* fit/fill/center transform), the coordinate-space conversions, the       *)
(* localStorage persistence, the export, and the project state machine of  *)
(* App.tsx.                                                                *)
(*                                                                         *)
(* JavaScript numbers are modelled as exact rationals <<num, den>> with    *)
(* den > 0 and gcd(num, den) = 1, so that equality of values is equality   *)
(* of tuples.  Rounding of IEEE doubles is not modelled.                   *)
(***************************************************************************)
EXTENDS Integers, Sequences, FiniteSets, TLC

VARIABLES
    pc,             \* position of the pure-function harness: "ready" | "done" | "app"
    call,           \* arguments of the pure function under evaluation
    ret,            \* its result
    frames,         \* App: useState<FrameAsset[]>
    photos,         \* App: useState<PhotoAsset[]>
    project,        \* App: useState<CardProject>
    containerSize,  \* CardComposerCanvas: useState containerSize
    boot,           \* App: position of initializeApp and what it read from storage
    frameUpload,    \* FrameUploadGallery: handleUpload in flight, with its closure
    photoUpload,    \* PhotoUploadGallery: handleUpload in flight, with its closure
    edits,          \* number of drag, control and resize events so far
    storage,        \* window.localStorage: one cell per key
    modal,          \* App: showExportModal, ExportModal: isExporting
    maskEditor,     \* App: editingMaskFrameId, MaskEditor: mask and containerSize
    images,         \* CardComposerCanvas: frameImage, photoImage, decodes in flight
    now,            \* Date.now() as read for the last saved card
    lastOp          \* the handler that ran last, with its inputs (history)

vars == <<pc, call, ret, frames, photos, project, containerSize,
          boot, frameUpload, photoUpload, edits, storage, modal, maskEditor, images,
          now, lastOp>>

-----------------------------------------------------------------------------
(* Bounds of the model *)

MaxDim == 4
ImgSize == 56
MaxEdits == 2
MaxSaves == 22

-----------------------------------------------------------------------------
(* JavaScript number arithmetic on exact rationals *)

Abs(n) == IF n < 0 THEN -n ELSE n

RECURSIVE GCD(_, _)
GCD(a, b) == IF b = 0 THEN a ELSE GCD(b, a % b)

Rat(n, d) ==
    LET g == GCD(Abs(n), Abs(d))
        s == IF d < 0 THEN -1 ELSE 1
    IN  <<(s * n) \div g, (s * d) \div g>>

R(n) == <<n, 1>>

RAdd(a, b) == Rat(a[1] * b[2] + b[1] * a[2], a[2] * b[2])
RSub(a, b) == Rat(a[1] * b[2] - b[1] * a[2], a[2] * b[2])
RMul(a, b) == Rat(a[1] * b[1], a[2] * b[2])
RDiv(a, b) == Rat(a[1] * b[2], a[2] * b[1])
RLt(a, b) == a[1] * b[2] < b[1] * a[2]
RLe(a, b) == a[1] * b[2] <= b[1] * a[2]
RGt(a, b) == RLt(b, a)
RGe(a, b) == RLe(b, a)
RMin(a, b) == IF RLt(b, a) THEN b ELSE a
RMax(a, b) == IF RGt(b, a) THEN b ELSE a

-----------------------------------------------------------------------------
(* types.ts *)

CANVAS_WIDTH == 1080
CANVAS_HEIGHT == 1920

NoMask == [type |-> "none"]

Rectangle(x, y, w, h) == [type |-> "rectangle", x |-> x, y |-> y, width |-> w, height |-> h]

DEFAULT_PHOTO_TRANSFORM == [x |-> R(0), y |-> R(0), scale |-> R(1), rotation |-> 0]

DEFAULT_TEXT_PROPERTIES == [x |-> R(540), y |-> R(200), visible |-> FALSE]

-----------------------------------------------------------------------------
(* imageUtils.ts: calculateFitTransform *)

\* the mode parameter with its default value
ModeOrDefault(mode) == IF mode = "undefined" THEN "fill" ELSE mode

FitScale_swapped(photoWidth, photoHeight, mask, mode) ==
    LET maskAspect == RDiv(mask.width, mask.height)
        photoAspect == RDiv(photoWidth, photoHeight)
    IN  IF ModeOrDefault(mode) = "fit"
        THEN IF RGt(photoAspect, maskAspect)
             THEN RDiv(mask.height, photoHeight)
             ELSE RDiv(mask.width, photoWidth)
        ELSE IF RGt(photoAspect, maskAspect)
             THEN RDiv(mask.width, photoWidth)
             ELSE RDiv(mask.height, photoHeight)

FitScale(photoWidth, photoHeight, mask, mode) ==
    LET maskAspect == RDiv(mask.width, mask.height)
        photoAspect == RDiv(photoWidth, photoHeight)
    IN  IF ModeOrDefault(mode) = "fit"
        THEN IF RGt(photoAspect, maskAspect)
             THEN RDiv(mask.width, photoWidth)
             ELSE RDiv(mask.height, photoHeight)
        ELSE IF RGt(photoAspect, maskAspect)
             THEN RDiv(mask.height, photoHeight)
             ELSE RDiv(mask.width, photoWidth)

FitX_left(mask, scaledWidth) == mask.x

FitX(mask, scaledWidth) ==
    RAdd(mask.x, RDiv(RSub(mask.width, scaledWidth), R(2)))

FitY_whole(mask, scaledHeight, mode) ==
    RSub(mask.y, RMul(scaledHeight, Rat(2, 10)))

FitY_biased(mask, scaledHeight, mode) ==
    RSub(mask.y, RMul(RSub(scaledHeight, mask.height), Rat(2, 10)))

FitY(mask, scaledHeight, mode) ==
    IF ModeOrDefault(mode) = "center"
    THEN RAdd(mask.y, RDiv(RSub(mask.height, scaledHeight), R(2)))
    ELSE LET overflow == RSub(scaledHeight, mask.height)
         IN  RSub(mask.y, RMul(overflow, Rat(2, 10)))

calculateFitTransform(photoWidth, photoHeight, mask, mode) ==
    LET scale == FitScale(photoWidth, photoHeight, mask, mode)
        scaledWidth == RMul(photoWidth, scale)
        scaledHeight == RMul(photoHeight, scale)
    IN  [x |-> FitX(mask, scaledWidth),
         y |-> FitY(mask, scaledHeight, mode),
         scale |-> scale,
         rotation |-> 0]

-----------------------------------------------------------------------------
(* imageUtils.ts: detectTransparentRegion                                  *)
(*                                                                         *)
(* A decoded image is a background pixel and one rectangular region of     *)
(* another pixel: [width, height, bg, fg, x0, y0, w, h]; a pixel is        *)
(* <<red, green, blue, alpha>>.                                            *)

PixelAt(img, x, y) ==
    IF /\ img.x0 <= x /\ x < img.x0 + img.w
       /\ img.y0 <= y /\ y < img.y0 + img.h
    THEN img.fg
    ELSE img.bg

\* the test of the scan loop: transparent, or opaque and nearly white
IsWindowPixel(p) ==
    p[4] < 10 \/ (p[1] > 240 /\ p[2] > 240 /\ p[3] > 240 /\ p[4] > 200)

SetMin(S) == CHOOSE m \in S : \A z \in S : m <= z
SetMax(S) == CHOOSE m \in S : \A z \in S : m >= z

Min2(a, b) == IF b < a THEN b ELSE a
Max2(a, b) == IF b > a THEN b ELSE a

\* columns and rows that hold a window pixel
WindowColumns(img) ==
    {x \in 0..(img.width - 1) : \E y \in 0..(img.height - 1) : IsWindowPixel(PixelAt(img, x, y))}

WindowRows(img) ==
    {y \in 0..(img.height - 1) : \E x \in 0..(img.width - 1) : IsWindowPixel(PixelAt(img, x, y))}

\* the values of foundTransparent, minX, minY, maxX, maxY after the scan
ScanImage(img) ==
    LET XS == WindowColumns(img)
        YS == WindowRows(img)
    IN  IF XS = {}
        THEN [foundTransparent |-> FALSE,
              minX |-> img.width, minY |-> img.height, maxX |-> 0, maxY |-> 0]
        ELSE [foundTransparent |-> TRUE,
              minX |-> SetMin(XS), minY |-> SetMin(YS),
              maxX |-> SetMax(XS), maxY |-> SetMax(YS)]

FallbackMask_square(width, height) ==
    Rectangle(RMul(R(width), Rat(15, 100)), RMul(R(height), Rat(15, 100)),
              RMul(R(width), Rat(7, 10)), RMul(R(height), Rat(7, 10)))

FallbackMask(width, height) ==
    Rectangle(RMul(R(width), Rat(15, 100)), RMul(R(height), Rat(15, 100)),
              RMul(R(width), Rat(7, 10)), RMul(R(height), Rat(5, 10)))

padding == 5

PaddedMask(width, height, b) ==
    Rectangle(R(Max2(0, b.minX - padding)),
              R(Max2(0, b.minY - padding)),
              R(Min2(width - b.minX + padding * 2, b.maxX - b.minX + padding * 2)),
              R(Min2(height - b.minY + padding * 2, b.maxY - b.minY + padding * 2)))

\* lines 46-99: the scan and the choice of the mask, once the image is
\* decoded and the 2d context is available
detectTransparentRegion(img) ==
    LET b == ScanImage(img)
    IN  IF \/ ~b.foundTransparent
           \/ b.maxX - b.minX < 50
           \/ b.maxY - b.minY < 50
        THEN FallbackMask(img.width, img.height)
        ELSE PaddedMask(img.width, img.height, b)

-----------------------------------------------------------------------------
(* utils/storage.ts: the three keys of localStorage behind try/catch.  A    *)
(* key holds no item ("missing"), the empty string ("empty"), text that is  *)
(* not JSON ("corrupt") or the JSON text of a value ("valid").  getItem     *)
(* throws when the storage is not readable, setItem when it is not writable *)
(* (access denied, quota exceeded).                                         *)

NULL == "null"

\* the outcome of evaluating an expression: a value or an exception
Return(v) == [thrown |-> FALSE, value |-> v]
Throw == [thrown |-> TRUE, value |-> "exception"]

Catch_rethrow(result, fallback) == result

\* try { result } catch (error) { console.error(...); fallback }
Catch(result, fallback) == IF result.thrown THEN Return(fallback) ELSE result

Item(state, v) == [state |-> state, value |-> v]

getItem(item, readable) == IF readable THEN Return(item) ELSE Throw

\* data ? ... : ... on what getItem returned: null and '' are falsy
Truthy(item) == item.state \in {"corrupt", "valid"}

JSONparse(item) == IF item.state = "valid" THEN Return(item.value) ELSE Throw

\* JSON.stringify of assets and projects: finite numbers, strings and
\* booleans are written as they are and read back equal
JSONstringify(v) == Item("valid", v)

setItem(store, key, v, writable) ==
    IF writable THEN Return([store EXCEPT ![key] = JSONstringify(v)]) ELSE Throw

\* the save functions return nothing: the value of the result is localStorage
\* after the call
saveFrames(store, fs, writable) == Catch(setItem(store, "frames", fs, writable), store)

savePhotos(store, ps, writable) == Catch(setItem(store, "photos", ps, writable), store)

saveProject(store, pr, writable) == Catch(setItem(store, "project", pr, writable), store)

LoadCollection(item, readable) ==
    LET data == getItem(item, readable)
    IN  Catch(IF data.thrown THEN data
              ELSE IF Truthy(data.value) THEN JSONparse(data.value)
              ELSE Return(<<>>),
              <<>>)

loadFrames(store, readable) == LoadCollection(store.frames, readable)

loadPhotos(store, readable) == LoadCollection(store.photos, readable)

\* the project loadProject returns when it has nothing to parse
DefaultProject ==
    [selectedFrameId |-> NULL, selectedPhotoId |-> NULL,
     photoTransform |-> DEFAULT_PHOTO_TRANSFORM,
     textProperties |-> DEFAULT_TEXT_PROPERTIES]

loadProject(store, readable) ==
    LET data == getItem(store.project, readable)
    IN  Catch(IF data.thrown THEN data
              ELSE IF Truthy(data.value) THEN JSONparse(data.value)
              ELSE Return(DefaultProject),
              DefaultProject)

\* localStorage without an item under any key
EmptyStorage ==
    [frames |-> Item("missing", <<>>), photos |-> Item("missing", <<>>),
     project |-> Item("missing", DefaultProject), cards |-> Item("missing", <<>>)]

-----------------------------------------------------------------------------
(* State of the application right after construction (App.tsx 34-38,       *)
(* CardComposerCanvas.tsx 28)                                              *)

NoOp == [op |-> "none"]

NoUpload == [active |-> FALSE, snapshot |-> <<>>, files |-> <<>>, used |-> {}]

\* no mask editor is open
NoEditor == [frameId |-> NULL, mask |-> NoMask, containerSize |-> [width |-> 600, height |-> 800]]

\* no image is decoded and none is being decoded; instant tells whether a
\* decode completes before the next event or stays in flight
NoImages(instant) ==
    [frameImage |-> NULL, photoImage |-> NULL, frameLoads |-> {}, photoLoads |-> {},
     instant |-> instant]

AppConstructedWith(instant) ==
    /\ frames = <<>>
    /\ photos = <<>>
    /\ project = loadProject(storage, TRUE).value
    /\ containerSize = [width |-> 400, height |-> 700]
    /\ boot = [stage |-> "start", savedFrames |-> <<>>, savedPhotos |-> <<>>]
    /\ frameUpload = NoUpload
    /\ photoUpload = NoUpload
    /\ edits = 0
    /\ modal = [open |-> FALSE, isExporting |-> FALSE]
    /\ maskEditor = NoEditor
    /\ images = NoImages(instant)
    /\ now = 0
    /\ lastOp = NoOp

AppConstructed == AppConstructedWith(TRUE)

appVars == <<frames, photos, project, containerSize,
             boot, frameUpload, photoUpload, edits, storage, modal, maskEditor, images,
          now, lastOp>>

-----------------------------------------------------------------------------
(* Specification SpecFit: calculateFitTransform applied to every photo and *)
(* mask with positive dimensions up to MaxDim, in every mode.              *)

Modes == {"fit", "fill", "center", "undefined"}

MaskOrigins == {-3, 0, 2}

FitCalls ==
    [photoWidth : 1..MaxDim, photoHeight : 1..MaxDim,
     maskX : MaskOrigins, maskY : MaskOrigins,
     maskWidth : 1..MaxDim, maskHeight : 1..MaxDim,
     mode : Modes]

NoRet == DEFAULT_PHOTO_TRANSFORM

CallMask == Rectangle(R(call.maskX), R(call.maskY), R(call.maskWidth), R(call.maskHeight))

InitFit ==
    /\ pc = "ready"
    /\ call \in FitCalls
    /\ ret = NoRet
    /\ storage = EmptyStorage
    /\ AppConstructed

CallCalculateFitTransform ==
    /\ pc = "ready"
    /\ pc' = "done"
    /\ ret' = calculateFitTransform(R(call.photoWidth), R(call.photoHeight), CallMask, call.mode)
    /\ UNCHANGED <<call, appVars>>

NextFit == CallCalculateFitTransform

SpecFit == InitFit /\ [][NextFit]_vars

-----------------------------------------------------------------------------
(* Results of a completed calculateFitTransform call *)

FitDone == pc = "done"

ScaledWidth == RMul(R(call.photoWidth), ret.scale)
ScaledHeight == RMul(R(call.photoHeight), ret.scale)

PhotoWider == call.photoWidth * call.maskHeight > call.maskWidth * call.photoHeight
PhotoTaller == call.photoWidth * call.maskHeight < call.maskWidth * call.photoHeight

\* C1: in 'fit' mode the scaled photo is no wider and no higher than the mask.
C1_FitContained ==
    (FitDone /\ call.mode = "fit") =>
        /\ RLe(ScaledWidth, CallMask.width)
        /\ RLe(ScaledHeight, CallMask.height)

C1_Witness ==
    /\ FitDone /\ call.mode = "fit" /\ PhotoWider
    /\ ScaledWidth = CallMask.width
    /\ RLt(ScaledHeight, CallMask.height)

\* C2: in 'fill' mode, and with the mode left out, the scaled photo is at
\* least as wide and at least as high as the mask.
C2_FillCovers ==
    (FitDone /\ call.mode \in {"fill", "undefined"}) =>
        /\ RGe(ScaledWidth, CallMask.width)
        /\ RGe(ScaledHeight, CallMask.height)

C2_Witness ==
    /\ FitDone /\ call.mode = "undefined" /\ PhotoTaller
    /\ ScaledWidth = CallMask.width
    /\ RGt(ScaledHeight, CallMask.height)

\* C3: in 'center' mode y = mask.y + (mask.height - scaledHeight)/2.
C3_CenterY ==
    (FitDone /\ call.mode = "center") =>
        ret.y = RAdd(CallMask.y, RDiv(RSub(CallMask.height, ScaledHeight), R(2)))

C3_Witness ==
    /\ FitDone /\ call.mode = "center" /\ PhotoTaller
    /\ RLt(ret.y, CallMask.y)

\* C4: in every mode x = mask.x + (mask.width - scaledWidth)/2 and rotation
\* is 0; in 'fit' and 'fill' mode y = mask.y - 0.2*(scaledHeight - mask.height).
C4_Position ==
    FitDone =>
        /\ ret.x = RAdd(CallMask.x, RDiv(RSub(CallMask.width, ScaledWidth), R(2)))
        /\ ret.rotation = 0
        /\ call.mode \in {"fit", "fill"} =>
             ret.y = RSub(CallMask.y, RMul(Rat(1, 5), RSub(ScaledHeight, CallMask.height)))

C4_Witness ==
    /\ FitDone /\ call.mode = "fill" /\ PhotoTaller
    /\ RLt(ret.y, CallMask.y)
    /\ ret.x = CallMask.x

\* rectangle inner lies within rectangle outer
C24_Within(ix, iy, iw, ih, ox, oy, ow, oh) ==
    /\ RLe(ox, ix) /\ RLe(RAdd(ix, iw), RAdd(ox, ow))
    /\ RLe(oy, iy) /\ RLe(RAdd(iy, ih), RAdd(oy, oh))

\* C24: in 'fill' mode the placed photo rectangle contains the whole mask
\* rectangle, and in 'fit' mode the placed photo rectangle lies within the
\* mask rectangle, the 20% upward bias included.
C24_PlacedRectangle ==
    FitDone =>
        /\ call.mode = "fill" =>
              C24_Within(CallMask.x, CallMask.y, CallMask.width, CallMask.height,
                         ret.x, ret.y, ScaledWidth, ScaledHeight)
        /\ call.mode = "fit" =>
              C24_Within(ret.x, ret.y, ScaledWidth, ScaledHeight,
                         CallMask.x, CallMask.y, CallMask.width, CallMask.height)

C24_Witness ==
    /\ FitDone /\ call.mode = "fit" /\ PhotoWider
    /\ RGt(ret.y, CallMask.y)
    /\ RLt(RAdd(ret.y, ScaledHeight), RAdd(CallMask.y, CallMask.height))
    /\ RSub(ret.y, CallMask.y) # RSub(RAdd(CallMask.y, CallMask.height), RAdd(ret.y, ScaledHeight))

-----------------------------------------------------------------------------
(* Specification SpecDetect: detectTransparentRegion applied to decoded    *)
(* images of ImgSize x ImgSize and ImgSize x (ImgSize + 4) pixels and to   *)
(* the 400 x 400 image with a transparent 200 x 200 square at (100, 100).  *)

Gray == <<128, 128, 128, 255>>
White == <<255, 255, 255, 255>>
Clear == <<0, 0, 0, 0>>

\* (background, region) pixel pairs, on both sides of every threshold
PixelPairs ==
    {<<Gray, Clear>>, <<Gray, <<17, 17, 17, 9>>>>, <<Gray, <<0, 0, 0, 10>>>>,
     <<Gray, <<241, 241, 241, 201>>>>, <<Gray, <<255, 255, 255, 200>>>>,
     <<Gray, <<240, 255, 255, 255>>>>, <<Gray, <<90, 90, 90, 255>>>>,
     <<White, Gray>>}

\* region extents <<start, length>> along an axis of the given size: next
\* to each edge and inside, around the 50 px threshold
Extents(size) ==
    {e \in {0, 3, 5, size - 50, size - 51} \X {1, 49, 50, 51, size} :
        e[1] >= 0 /\ e[1] + e[2] <= size}

Image(width, height, pair, ex, ey) ==
    [width |-> width, height |-> height, bg |-> pair[1], fg |-> pair[2],
     x0 |-> ex[1], w |-> ex[2], y0 |-> ey[1], h |-> ey[2]]

SquareHoleImage == Image(400, 400, <<Gray, Clear>>, <<100, 200>>, <<100, 200>>)

DetectCalls ==
    {Image(ImgSize, hh, pair, ex, ey) :
        hh \in {ImgSize, ImgSize + 4}, pair \in PixelPairs,
        ex \in Extents(ImgSize), ey \in {e \in Extents(ImgSize) : e[2] \in {1, 50, 51}}}
    \cup {SquareHoleImage}

InitDetect ==
    /\ pc = "ready"
    /\ call \in DetectCalls
    /\ ret = NoMask
    /\ storage = EmptyStorage
    /\ AppConstructed

\* img.onload with a 2d context: the scan runs and resolves a mask
CallDetectTransparentRegion ==
    /\ pc = "ready"
    /\ pc' = "done"
    /\ ret' = detectTransparentRegion(call)
    /\ UNCHANGED <<call, appVars>>

\* no 2d context (lines 41-44) or img.onerror (line 101): resolves null
CallDetectFails ==
    /\ pc = "ready"
    /\ pc' = "failed"
    /\ ret' = NoMask
    /\ UNCHANGED <<call, appVars>>

NextDetect == CallDetectTransparentRegion \/ CallDetectFails

SpecDetect == InitDetect /\ [][NextDetect]_vars

-----------------------------------------------------------------------------
(* Results of a completed scan *)

DetectDone == pc = "done"

\* a window pixel, in the words of the specification
TransparentPixel(p) == p[4] < 10
OpaqueNearWhitePixel(p) == p[4] > 200 /\ p[1] > 240 /\ p[2] > 240 /\ p[3] > 240

HasWindowPixel(p) == TransparentPixel(p) \/ OpaqueNearWhitePixel(p)

RegionEmpty == call.w = 0 \/ call.h = 0
RegionIsWholeImage ==
    call.x0 = 0 /\ call.y0 = 0 /\ call.w = call.width /\ call.h = call.height

NoWindowPixel ==
    /\ RegionEmpty \/ ~HasWindowPixel(call.fg)
    /\ RegionIsWholeImage \/ ~HasWindowPixel(call.bg)

\* inclusive bounding box of the window pixels when only the region holds them
RegionIsWindow == ~RegionEmpty /\ HasWindowPixel(call.fg) /\ ~HasWindowPixel(call.bg)

Fraction(n, num, den) == RMul(R(n), Rat(num, den))

SpecFallback ==
    Rectangle(Fraction(call.width, 15, 100), Fraction(call.height, 15, 100),
              Fraction(call.width, 7, 10), Fraction(call.height, 1, 2))

\* C5: an image without any window pixel gets the fallback rectangle
\* {0.15W, 0.15H, 0.7W, 0.5H}.
C5_FallbackWhenNoWindow ==
    (DetectDone /\ NoWindowPixel) => ret = SpecFallback

C5_Witness ==
    /\ DetectDone /\ NoWindowPixel
    /\ call.fg = <<90, 90, 90, 255>> /\ call.bg = Gray
    /\ ret = SpecFallback

\* C6: the 400 x 400 image with a transparent 200 x 200 square at (100, 100)
\* gets the mask {95, 95, 210, 210}.
C6_SquareHoleMask ==
    (DetectDone /\ call = SquareHoleImage) =>
        ret = Rectangle(R(95), R(95), R(210), R(210))

\* C7: every detected mask lies inside the image.
C7_MaskInsideImage ==
    DetectDone =>
        /\ RGe(ret.x, R(0))
        /\ RGe(ret.y, R(0))
        /\ RLe(RAdd(ret.x, ret.width), R(call.width))
        /\ RLe(RAdd(ret.y, ret.height), R(call.height))

\* C8: the fallback rectangle is returned exactly when there is no window
\* pixel or the window's bounding box is less than 50 px wide or high.
C8_FallbackIffSmall ==
    (DetectDone /\ (NoWindowPixel \/ RegionIsWindow)) =>
        (ret = SpecFallback <=> (NoWindowPixel \/ call.w < 50 \/ call.h < 50))

-----------------------------------------------------------------------------
(* App.tsx and CardComposerCanvas.tsx: coordinate-space conversions         *)

NotFound == [id |-> NULL]

\* Array.prototype.find on the id: the first asset with that id, or undefined
Find(assets, id) ==
    IF \E i \in 1..Len(assets) : assets[i].id = id
    THEN assets[CHOOSE i \in 1..Len(assets) :
                    /\ assets[i].id = id
                    /\ \A j \in 1..(i - 1) : assets[j].id # id]
    ELSE NotFound

Ids(assets) == {assets[i].id : i \in 1..Len(assets)}

HasMask(frame) == frame # NotFound /\ frame.mask.type = "rectangle"

\* frameScale, frameOffsetX, frameOffsetY and scaledMask of the handlers
FrameScale(frame) ==
    RMin(RDiv(R(CANVAS_WIDTH), R(frame.width)), RDiv(R(CANVAS_HEIGHT), R(frame.height)))

ScaledMask_origin(frame, mask) ==
    Rectangle(RMul(mask.x, FrameScale(frame)), RMul(mask.y, FrameScale(frame)),
              RMul(mask.width, FrameScale(frame)), RMul(mask.height, FrameScale(frame)))

ScaledMask(frame, mask) ==
    LET frameScale == FrameScale(frame)
        frameOffsetX == RDiv(RSub(R(CANVAS_WIDTH), RMul(R(frame.width), frameScale)), R(2))
        frameOffsetY == RDiv(RSub(R(CANVAS_HEIGHT), RMul(R(frame.height), frameScale)), R(2))
    IN  Rectangle(RAdd(frameOffsetX, RMul(mask.x, frameScale)),
                  RAdd(frameOffsetY, RMul(mask.y, frameScale)),
                  RMul(mask.width, frameScale),
                  RMul(mask.height, frameScale))

selectedFrame == Find(frames, project.selectedFrameId)
selectedPhoto == Find(photos, project.selectedPhotoId)

\* App.getCurrentMask: null when the selected frame has no mask
getCurrentMask ==
    IF HasMask(selectedFrame) THEN ScaledMask(selectedFrame, selectedFrame.mask) ELSE NoMask

\* CardComposerCanvas.getMaskInCanvas: the default region when there is no mask
getMaskInCanvas(frame) ==
    IF ~HasMask(frame)
    THEN Rectangle(RMul(R(CANVAS_WIDTH), Rat(15, 100)), RMul(R(CANVAS_HEIGHT), Rat(15, 100)),
                   RMul(R(CANVAS_WIDTH), Rat(7, 10)), RMul(R(CANVAS_HEIGHT), Rat(5, 10)))
    ELSE ScaledMask(frame, frame.mask)

displayScale ==
    RMin(RMin(RDiv(R(containerSize.width), R(CANVAS_WIDTH)),
              RDiv(R(containerSize.height), R(CANVAS_HEIGHT))),
         R(1))

\* JavaScript a || b on numbers: b when a is 0
OrElse(a, b) == IF a = R(0) THEN b ELSE a

\* CardComposerCanvas.getPhotoDisplayProps: the size of the photo node in
\* canvas space, computed from the mask the canvas uses
getPhotoDisplayProps(photo, transform, mask) ==
    LET photoAspect == RDiv(R(photo.width), R(photo.height))
        maskAspect == RDiv(mask.width, mask.height)
        wider == RGt(photoAspect, maskAspect)
        heightIfWider == RDiv(mask.height, transform.scale)
        widthIfTaller == RDiv(mask.width, transform.scale)
        photoDisplayWidth == IF wider THEN RMul(heightIfWider, photoAspect) ELSE widthIfTaller
        photoDisplayHeight == IF wider THEN heightIfWider ELSE RDiv(widthIfTaller, photoAspect)
    IN  [width |-> RMul(photoDisplayWidth, transform.scale),
         height |-> RMul(photoDisplayHeight, transform.scale)]

\* size of the photo node on the stage: the width and height props of KonvaImage
PhotoNodeSize(photo, transform, mask, s) ==
    [width |-> RMul(getPhotoDisplayProps(photo, transform, mask).width, s),
     height |-> RMul(getPhotoDisplayProps(photo, transform, mask).height, s)]

\* position of the photo node on the stage: the x and y props of KonvaImage
PhotoNodePosition(transform, mask, s) ==
    [x |-> RMul(OrElse(transform.x, mask.x), s),
     y |-> RMul(OrElse(transform.y, mask.y), s)]

TextNodePosition(text, s) == [x |-> RMul(text.x, s), y |-> RMul(text.y, s)]

\* the size of the stage: CANVAS_WIDTH * displayScale by CANVAS_HEIGHT * displayScale
StageSize(s) == [width |-> RMul(R(CANVAS_WIDTH), s), height |-> RMul(R(CANVAS_HEIGHT), s)]

ExportPixelRatio_min(currentWidth, currentHeight) ==
    RMin(RDiv(R(CANVAS_WIDTH), currentWidth), RDiv(R(CANVAS_HEIGHT), currentHeight))

\* pixelRatio of generateHighQualityExport and of handleSaveCard
ExportPixelRatio(currentWidth, currentHeight) ==
    LET pixelRatioX == RDiv(R(CANVAS_WIDTH), currentWidth)
        pixelRatioY == RDiv(R(CANVAS_HEIGHT), currentHeight)
    IN  RMax(pixelRatioX, pixelRatioY)

-----------------------------------------------------------------------------
(* App.tsx: selection handlers *)

FrameSelectTransform_keep(prev, frameId) == prev.photoTransform

FrameSelectTransform(prev, frameId) ==
    LET frame == Find(frames, frameId)
        photo == Find(photos, prev.selectedPhotoId)
    IN  IF HasMask(frame) /\ photo # NotFound
        THEN calculateFitTransform(R(photo.width), R(photo.height),
                                   ScaledMask(frame, frame.mask), "fill")
        ELSE prev.photoTransform

PhotoSelectTransform_keep(prev, photoId) == prev.photoTransform

PhotoSelectTransform(prev, photoId) ==
    LET photo == Find(photos, photoId)
        frame == Find(frames, prev.selectedFrameId)
    IN  IF HasMask(frame) /\ photo # NotFound
        THEN calculateFitTransform(R(photo.width), R(photo.height),
                                   ScaledMask(frame, frame.mask), "fill")
        ELSE DEFAULT_PHOTO_TRANSFORM

Mounted == pc = "app" /\ boot.stage # "start"

\* App.tsx 110-122: the effects that save frames, photos and project after a
\* render in which they changed, and all three after the first render
SaveEffects_projectOnly(store, fs, ps, pr) == saveProject(store, pr, TRUE).value

SaveEffects(store, fs, ps, pr) ==
    saveProject(savePhotos(saveFrames(store, fs, TRUE).value, ps, TRUE).value, pr, TRUE).value

RunSaveEffects == storage' = SaveEffects(storage, frames', photos', project')

\* CardComposerCanvas.tsx 60-79: one image effect.  When the asset of the
\* render differs from the asset of the previous render, the image is cleared
\* if there is no asset, and otherwise a decode of the asset's image starts
ImageEffect(image, loads, instant, previous, asset) ==
    IF asset = previous THEN [image |-> image, loads |-> loads]
    ELSE IF asset = NotFound THEN [image |-> NULL, loads |-> loads]
    ELSE IF instant THEN [image |-> asset.id, loads |-> loads]
    ELSE [image |-> image, loads |-> loads \cup {asset.id}]

\* the two image effects after a render
RunImageEffects ==
    LET f == ImageEffect(images.frameImage, images.frameLoads, images.instant,
                         selectedFrame, selectedFrame')
        p == ImageEffect(images.photoImage, images.photoLoads, images.instant,
                         selectedPhoto, selectedPhoto')
    IN  images' = [images EXCEPT !.frameImage = f.image, !.frameLoads = f.loads,
                                 !.photoImage = p.image, !.photoLoads = p.loads]

\* img.onload of a frame image: setFrameImage(img)
FrameImageLoaded(id) ==
    /\ pc = "app"
    /\ id \in images.frameLoads
    /\ images' = [images EXCEPT !.frameImage = id, !.frameLoads = @ \ {id}]
    /\ lastOp' = [op |-> "frameImageLoaded", id |-> id]
    /\ UNCHANGED <<pc, call, ret, frames, photos, project, containerSize, boot,
                   frameUpload, photoUpload, edits, storage, modal, maskEditor, now>>

\* img.onload of a photo image: setPhotoImage(img)
PhotoImageLoaded(id) ==
    /\ pc = "app"
    /\ id \in images.photoLoads
    /\ images' = [images EXCEPT !.photoImage = id, !.photoLoads = @ \ {id}]
    /\ lastOp' = [op |-> "photoImageLoaded", id |-> id]
    /\ UNCHANGED <<pc, call, ret, frames, photos, project, containerSize, boot,
                   frameUpload, photoUpload, edits, storage, modal, maskEditor, now>>

handleFrameSelect(frameId) ==
    /\ Mounted
    /\ frameId \in Ids(frames)
    /\ project' = [project EXCEPT !.selectedFrameId = frameId,
                                  !.photoTransform = FrameSelectTransform(project, frameId)]
    /\ lastOp' = [op |-> "frameSelect", id |-> frameId]
    /\ UNCHANGED <<pc, call, ret, frames, photos, containerSize, boot,
                   frameUpload, photoUpload, edits, modal, now,
                   maskEditor>>
    /\ RunSaveEffects
    /\ RunImageEffects

handlePhotoSelect(photoId) ==
    /\ Mounted
    /\ photoId \in Ids(photos)
    /\ project' = [project EXCEPT !.selectedPhotoId = photoId,
                                  !.photoTransform = PhotoSelectTransform(project, photoId)]
    /\ lastOp' = [op |-> "photoSelect", id |-> photoId]
    /\ UNCHANGED <<pc, call, ret, frames, photos, containerSize, boot,
                   frameUpload, photoUpload, edits, modal, now,
                   maskEditor>>
    /\ RunSaveEffects
    /\ RunImageEffects

-----------------------------------------------------------------------------
(* CardComposerCanvas.tsx: dragging the photo and the text.  The stage is   *)
(* rendered only when a frame is selected, the photo node only when a photo *)
(* is selected.  A drag event moves the node by (dx, dy) display pixels     *)
(* from where it is drawn, and the handler reads the node position back.    *)

CanEdit == Mounted /\ edits < MaxEdits

handlePhotoDrag(dx, dy) ==
    /\ CanEdit
    /\ selectedFrame # NotFound
    /\ selectedPhoto # NotFound
    /\ LET s == displayScale
           from == PhotoNodePosition(project.photoTransform, getMaskInCanvas(selectedFrame), s)
           nodeX == RAdd(from.x, R(dx))
           nodeY == RAdd(from.y, R(dy))
       IN  project' = [project EXCEPT !.photoTransform.x = RDiv(nodeX, s),
                                      !.photoTransform.y = RDiv(nodeY, s)]
    /\ lastOp' = [op |-> "photoDrag", dx |-> dx, dy |-> dy]
    /\ edits' = edits + 1
    /\ UNCHANGED <<pc, call, ret, frames, photos, containerSize, boot,
                   frameUpload, photoUpload, modal, now,
                   maskEditor>>
    /\ RunSaveEffects
    /\ RunImageEffects

handleTextDrag(dx, dy) ==
    /\ CanEdit
    /\ selectedFrame # NotFound
    /\ project.textProperties.visible
    /\ LET s == displayScale
           from == TextNodePosition(project.textProperties, s)
           nodeX == RAdd(from.x, R(dx))
           nodeY == RAdd(from.y, R(dy))
       IN  project' = [project EXCEPT !.textProperties.x = RDiv(nodeX, s),
                                      !.textProperties.y = RDiv(nodeY, s)]
    /\ lastOp' = [op |-> "textDrag", dx |-> dx, dy |-> dy]
    /\ edits' = edits + 1
    /\ UNCHANGED <<pc, call, ret, frames, photos, containerSize, boot,
                   frameUpload, photoUpload, modal, now,
                   maskEditor>>
    /\ RunSaveEffects
    /\ RunImageEffects

\* updateSize: the container was resized
updateSize(size) ==
    /\ CanEdit
    /\ size # containerSize
    /\ containerSize' = size
    /\ lastOp' = [op |-> "resize"]
    /\ edits' = edits + 1
    /\ UNCHANGED <<pc, call, ret, frames, photos, project, boot,
                   frameUpload, photoUpload, modal, now, storage,
                   maskEditor, images>>

-----------------------------------------------------------------------------
(* TextControls (visibility toggle) and PhotoControls.tsx *)

handleChangeVisible ==
    /\ CanEdit
    /\ project' = [project EXCEPT !.textProperties.visible = ~project.textProperties.visible]
    /\ lastOp' = [op |-> "textVisible"]
    /\ edits' = edits + 1
    /\ UNCHANGED <<pc, call, ret, frames, photos, containerSize, boot,
                   frameUpload, photoUpload, modal, now,
                   maskEditor>>
    /\ RunSaveEffects
    /\ RunImageEffects

\* the controls are disabled while no photo is selected
ControlsEnabled == CanEdit /\ selectedPhoto # NotFound

SetPhotoTransform(op, transform) ==
    /\ project' = [project EXCEPT !.photoTransform = transform]
    /\ lastOp' = [op |-> op]
    /\ edits' = edits + 1
    /\ UNCHANGED <<pc, call, ret, frames, photos, containerSize, boot,
                   frameUpload, photoUpload, modal, now,
                   maskEditor>>
    /\ RunSaveEffects
    /\ RunImageEffects

handleZoomChange(value) ==
    /\ ControlsEnabled
    /\ SetPhotoTransform("zoom", [project.photoTransform EXCEPT !.scale = value])

handleRotationChange(value) ==
    /\ ControlsEnabled
    /\ SetPhotoTransform("rotation", [project.photoTransform EXCEPT !.rotation = value])

\* handleCenter, handleFit, handleFill: nothing happens without a mask
handleFitMode(mode) ==
    /\ ControlsEnabled
    /\ getCurrentMask # NoMask
    /\ SetPhotoTransform(mode,
           calculateFitTransform(R(selectedPhoto.width), R(selectedPhoto.height),
                                 getCurrentMask, mode))

handleReset ==
    /\ ControlsEnabled
    /\ SetPhotoTransform("reset",
           IF getCurrentMask # NoMask
           THEN [calculateFitTransform(R(selectedPhoto.width), R(selectedPhoto.height),
                                       getCurrentMask, "fill") EXCEPT !.rotation = 0]
           ELSE DEFAULT_PHOTO_TRANSFORM)

-----------------------------------------------------------------------------
(* The files and stored assets the application is run with *)

\* the bundled /default-frame.png, with the mask of loadDefaultFrame
DefaultFrame ==
    [id |-> "default-caissa-frame", width |-> 576, height |-> 1024,
     mask |-> Rectangle(R(86), R(235), R(400), R(385))]

\* the frame file the user can upload: opaque with a transparent window
FrameFileImage ==
    [frameA |-> Image(108, 192, <<Gray, Clear>>, <<19, 70>>, <<29, 100>>),
     frameN |-> Image(108, 192, <<Gray, Clear>>, <<19, 20>>, <<29, 100>>)]

FrameFiles == {"frameA"}

\* the files of the sessions in which masks are edited: the window of
\* frameN is too narrow to be detected
MaskFrameFiles == DOMAIN FrameFileImage

\* what detectTransparentRegion resolves for each file when it can scan it
DetectedMask == [f \in DOMAIN FrameFileImage |-> detectTransparentRegion(FrameFileImage[f])]

PhotoFileSize ==
    [photoA |-> [width |-> 300, height |-> 400],
     photoB |-> [width |-> 400, height |-> 300]]

\* photoA is in storage from the last session, photoB can be uploaded
PhotoFiles == {"photoB"}

PhotoOf(f) == [id |-> f, width |-> PhotoFileSize[f].width, height |-> PhotoFileSize[f].height]

\* what localStorage holds at start-up: nothing, text that does not parse,
\* or the last session's assets
StoredFrames == {<<>>, <<DefaultFrame>>}
StoredPhotos == {<<>>, <<PhotoOf("photoA")>>}

StoredItems(values, empty) ==
    {Item("missing", empty), Item("corrupt", empty)} \cup {Item("valid", v) : v \in values}

InitialStorage ==
    [frames : StoredItems(StoredFrames, <<>>), photos : StoredItems(StoredPhotos, <<>>),
     project : StoredItems({}, DefaultProject), cards : {Item("missing", <<>>)}]

ContainerSizes == {[width |-> 400, height |-> 700], [width |-> 1200, height |-> 2000]}

DragDeltas == {<<-15, 24>>}
ZoomValues == {Rat(3, 10)}
RotationValues == {-90}

-----------------------------------------------------------------------------
(* App.tsx: initializeApp *)

hasDefaultFrame_never(savedFrames) == FALSE

hasDefaultFrame(savedFrames) == "default-caissa-frame" \in Ids(savedFrames)

InitializeAppStart ==
    /\ pc = "app"
    /\ boot.stage = "start"
    /\ LET savedFrames == loadFrames(storage, TRUE).value
           savedPhotos == loadPhotos(storage, TRUE).value
       IN  IF hasDefaultFrame(savedFrames)
           THEN /\ frames' = savedFrames
                /\ photos' = savedPhotos
                /\ boot' = [stage |-> "done", savedFrames |-> <<>>, savedPhotos |-> <<>>]
           ELSE /\ boot' = [stage |-> "fetching", savedFrames |-> savedFrames,
                            savedPhotos |-> savedPhotos]
                /\ UNCHANGED <<frames, photos>>
    /\ lastOp' = [op |-> "initializeApp"]
    /\ UNCHANGED <<pc, call, ret, project, containerSize, frameUpload,
                   photoUpload, edits, modal, now,
                   maskEditor>>
    /\ RunSaveEffects
    /\ RunImageEffects

\* loadDefaultFrame resolved: the frame, or null when the fetch or decode failed
DefaultFrameLoaded(ok) ==
    /\ pc = "app"
    /\ boot.stage = "fetching"
    /\ frames' = IF ok THEN <<DefaultFrame>> \o boot.savedFrames ELSE boot.savedFrames
    /\ photos' = boot.savedPhotos
    /\ boot' = [stage |-> "done", savedFrames |-> <<>>, savedPhotos |-> <<>>]
    /\ lastOp' = [op |-> "defaultFrameLoaded", ok |-> ok]
    /\ UNCHANGED <<pc, call, ret, project, containerSize, frameUpload,
                   photoUpload, edits, modal, now,
                   maskEditor>>
    /\ RunSaveEffects
    /\ RunImageEffects

-----------------------------------------------------------------------------
(* FrameUploadGallery.tsx and PhotoUploadGallery.tsx *)

\* sequences without repetition over a set of files
Batches(files) ==
    {<<f>> : f \in files} \cup {b \in files \X files : b[1] # b[2]}

Range(seq) == {seq[i] : i \in 1..Len(seq)}

\* handleUpload up to its first await: the closure holds this render's frames
FrameUploadStart(files) ==
    /\ Mounted
    /\ ~frameUpload.active
    /\ Range(files) \cap frameUpload.used = {}
    /\ frameUpload' = [active |-> TRUE, snapshot |-> frames, files |-> files,
                       used |-> frameUpload.used \cup Range(files)]
    /\ lastOp' = [op |-> "frameUploadStart"]
    /\ UNCHANGED <<pc, call, ret, frames, photos, project, containerSize,
                   boot, photoUpload, edits, modal, now, storage,
                   maskEditor, images>>

\* per file: "error" (decoding throws, the file is skipped), "null" (the
\* detection resolves null) or "ok" (the detection resolves a mask)
UploadedFrames(files, outcome) ==
    LET frameOf(f) ==
            [id |-> f, width |-> FrameFileImage[f].width, height |-> FrameFileImage[f].height,
             mask |-> IF outcome[f] = "ok" THEN DetectedMask[f] ELSE NoMask]
    IN  [i \in 1..Len(SelectSeq(files, LAMBDA f : outcome[f] # "error")) |->
            frameOf(SelectSeq(files, LAMBDA f : outcome[f] # "error")[i])]

FrameUploadComplete(outcome) ==
    /\ pc = "app"
    /\ frameUpload.active
    /\ frames' = frameUpload.snapshot \o UploadedFrames(frameUpload.files, outcome)
    /\ frameUpload' = [frameUpload EXCEPT !.active = FALSE, !.snapshot = <<>>, !.files = <<>>]
    /\ lastOp' = [op |-> "frameUploadComplete"]
    /\ UNCHANGED <<pc, call, ret, photos, project, containerSize, boot,
                   photoUpload, edits, modal, now,
                   maskEditor>>
    /\ RunSaveEffects
    /\ RunImageEffects

PhotoUploadStart(files) ==
    /\ Mounted
    /\ ~photoUpload.active
    /\ Range(files) \cap (photoUpload.used \cup Ids(photos)) = {}
    /\ photoUpload' = [active |-> TRUE, snapshot |-> photos, files |-> files,
                       used |-> photoUpload.used \cup Range(files)]
    /\ lastOp' = [op |-> "photoUploadStart"]
    /\ UNCHANGED <<pc, call, ret, frames, photos, project, containerSize,
                   boot, frameUpload, edits, modal, now, storage,
                   maskEditor, images>>

UploadedPhotos(files, outcome) ==
    [i \in 1..Len(SelectSeq(files, LAMBDA f : outcome[f] # "error")) |->
        PhotoOf(SelectSeq(files, LAMBDA f : outcome[f] # "error")[i])]

PhotoUploadComplete(outcome) ==
    /\ pc = "app"
    /\ photoUpload.active
    /\ photos' = photoUpload.snapshot \o UploadedPhotos(photoUpload.files, outcome)
    /\ photoUpload' = [photoUpload EXCEPT !.active = FALSE, !.snapshot = <<>>, !.files = <<>>]
    /\ lastOp' = [op |-> "photoUploadComplete"]
    /\ UNCHANGED <<pc, call, ret, frames, project, containerSize, boot,
                   frameUpload, edits, modal, now,
                   maskEditor>>
    /\ RunSaveEffects
    /\ RunImageEffects

handleDeleteFrame(frameId) ==
    /\ Mounted
    /\ frameId \in Ids(frames)
    /\ frames' = SelectSeq(frames, LAMBDA f : f.id # frameId)
    /\ lastOp' = [op |-> "frameDelete", id |-> frameId]
    /\ UNCHANGED <<pc, call, ret, photos, project, containerSize, boot,
                   frameUpload, photoUpload, edits, modal, now,
                   maskEditor>>
    /\ RunSaveEffects
    /\ RunImageEffects

handleDeletePhoto(photoId) ==
    /\ Mounted
    /\ photoId \in Ids(photos)
    /\ photos' = SelectSeq(photos, LAMBDA p : p.id # photoId)
    /\ lastOp' = [op |-> "photoDelete", id |-> photoId]
    /\ UNCHANGED <<pc, call, ret, frames, project, containerSize, boot,
                   frameUpload, photoUpload, edits, modal, now,
                   maskEditor>>
    /\ RunSaveEffects
    /\ RunImageEffects

-----------------------------------------------------------------------------
(* Specification Spec: the application in an editing session: start-up,    *)
(* uploads, deletions, selections, drags, controls and resizes.  Saving    *)
(* cards and exporting are run in SpecCards and SpecExport.                *)

Init ==
    /\ pc = "app"
    /\ call = NoOp
    /\ ret = NoMask
    /\ storage \in InitialStorage
    /\ AppConstructed

Next ==
    \/ InitializeAppStart
    \/ \E ok \in BOOLEAN : DefaultFrameLoaded(ok)
    \/ \E files \in Batches(FrameFiles) : FrameUploadStart(files)
    \/ \E outcome \in [FrameFiles -> {"ok", "null", "error"}] : FrameUploadComplete(outcome)
    \/ \E files \in Batches(PhotoFiles) : PhotoUploadStart(files)
    \/ \E outcome \in [PhotoFiles -> {"ok", "error"}] : PhotoUploadComplete(outcome)
    \/ \E id \in Ids(frames) : handleDeleteFrame(id)
    \/ \E id \in Ids(photos) : handleDeletePhoto(id)
    \/ \E id \in Ids(frames) : handleFrameSelect(id)
    \/ \E id \in Ids(photos) : handlePhotoSelect(id)
    \/ \E d \in DragDeltas : handlePhotoDrag(d[1], d[2])
    \/ \E d \in DragDeltas : handleTextDrag(d[1], d[2])
    \/ \E size \in ContainerSizes : updateSize(size)
    \/ handleChangeVisible
    \/ \E value \in ZoomValues : handleZoomChange(value)
    \/ \E value \in RotationValues : handleRotationChange(value)
    \/ \E mode \in {"center", "fit", "fill"} : handleFitMode(mode)
    \/ handleReset

Spec == Init /\ [][Next]_vars

-----------------------------------------------------------------------------
(* Drags and selections of the application *)

\* displayScale as the specification gives it
C9_DisplayScale ==
    RMin(RMin(RDiv(R(containerSize.width), R(1080)), RDiv(R(containerSize.height), R(1920))),
         R(1))

C9_Moved(from, to, dx, dy) ==
    /\ to.x = RAdd(from.x, RDiv(R(dx), C9_DisplayScale))
    /\ to.y = RAdd(from.y, RDiv(R(dy), C9_DisplayScale))

\* C9: a drag of the photo or of the text by (dx, dy) display pixels moves
\* the stored canvas-space position by exactly (dx/s, dy/s), whatever the
\* stored position was.
C9_DragMovesByDelta ==
    [][/\ lastOp'.op = "photoDrag" =>
            C9_Moved(project.photoTransform, project'.photoTransform, lastOp'.dx, lastOp'.dy)
       /\ lastOp'.op = "textDrag" =>
            C9_Moved(project.textProperties, project'.textProperties, lastOp'.dx, lastOp'.dy)
      ]_vars

\* the frame's mask in canvas space as the specification gives it
C10_MaskInCanvas(frame) ==
    LET frameScale == RMin(RDiv(R(1080), R(frame.width)), RDiv(R(1920), R(frame.height)))
        offsetX == RDiv(RSub(R(1080), RMul(R(frame.width), frameScale)), R(2))
        offsetY == RDiv(RSub(R(1920), RMul(R(frame.height), frameScale)), R(2))
    IN  [type |-> "rectangle",
         x |-> RAdd(offsetX, RMul(frame.mask.x, frameScale)),
         y |-> RAdd(offsetY, RMul(frame.mask.y, frameScale)),
         width |-> RMul(frame.mask.width, frameScale),
         height |-> RMul(frame.mask.height, frameScale)]

\* C10: selecting a frame that has a mask while a photo is selected makes it
\* the selected frame and sets photoTransform to the 'fill' transform of the
\* photo against the frame's mask in canvas space.
C10_FrameSelectRecomputesFill ==
    [][(/\ lastOp'.op = "frameSelect"
        /\ HasMask(Find(frames, lastOp'.id))
        /\ selectedPhoto # NotFound) =>
            /\ project'.selectedFrameId = lastOp'.id
            /\ project'.photoTransform =
                 calculateFitTransform(R(selectedPhoto.width), R(selectedPhoto.height),
                                       C10_MaskInCanvas(Find(frames, lastOp'.id)), "fill")
      ]_vars

C10_Witness ==
    /\ lastOp.op = "frameSelect"
    /\ project.selectedFrameId = "frameA"
    /\ HasMask(selectedFrame)
    /\ selectedPhoto # NotFound
    /\ project.photoTransform =
         calculateFitTransform(R(selectedPhoto.width), R(selectedPhoto.height),
                               C10_MaskInCanvas(selectedFrame), "fill")
    /\ project.photoTransform.x # R(0)

\* the default centered region as the specification gives it
C11_DefaultRegion ==
    [type |-> "rectangle",
     x |-> RMul(R(1080), Rat(15, 100)), y |-> RMul(R(1920), Rat(15, 100)),
     width |-> RMul(R(1080), Rat(70, 100)), height |-> RMul(R(1920), Rat(50, 100))]

\* C11: selecting a frame that has no mask while a photo is selected sets
\* photoTransform to the transform computed for the default region (15% inset,
\* 70% x 50% of the canvas), the region the compositor clips the photo to.
C11_NoMaskUsesDefaultRegion ==
    [][(/\ lastOp'.op = "frameSelect"
        /\ ~HasMask(Find(frames, lastOp'.id))
        /\ selectedPhoto # NotFound) =>
            /\ getMaskInCanvas(Find(frames', project'.selectedFrameId)) = C11_DefaultRegion
            /\ project'.photoTransform =
                 calculateFitTransform(R(selectedPhoto.width), R(selectedPhoto.height),
                                       C11_DefaultRegion, "fill")
      ]_vars

C12_SelectionChanged ==
    \/ project'.selectedFrameId # project.selectedFrameId
    \/ project'.selectedPhotoId # project.selectedPhotoId

\* the transform that belongs to a selection: 'fill' of the photo against the
\* frame's mask in canvas space, or against the default region without a mask
C12_TransformOf(frame, photo) ==
    calculateFitTransform(R(photo.width), R(photo.height),
                          IF HasMask(frame) THEN C10_MaskInCanvas(frame) ELSE C11_DefaultRegion,
                          "fill")

\* C12: a step that changes selectedFrameId or selectedPhotoId, after which a
\* frame and a photo are selected, leaves the new selection together with the
\* transform recomputed for it, never with the transform of the selection
\* before it, in the project state and in the persisted project record.
C12_SelectionWithItsTransform ==
    [][(/\ C12_SelectionChanged
        /\ Find(frames', project'.selectedFrameId) # NotFound
        /\ Find(photos', project'.selectedPhotoId) # NotFound) =>
            /\ project'.photoTransform =
                 C12_TransformOf(Find(frames', project'.selectedFrameId),
                                 Find(photos', project'.selectedPhotoId))
            /\ storage'.project = [state |-> "valid", value |-> project']
      ]_vars

\* C14: selectedFrameId is null or the id of a frame in the frame collection,
\* and selectedPhotoId is null or the id of a photo in the photo collection.
C14_SelectionInCollection ==
    /\ project.selectedFrameId = NULL \/ project.selectedFrameId \in Ids(frames)
    /\ project.selectedPhotoId = NULL \/ project.selectedPhotoId \in Ids(photos)

\* C15: while no photo is selected (selectedPhotoId is null or names no photo
\* of the collection) photoTransform is {x: 0, y: 0, scale: 1, rotation: 0}.
C15_NoPhotoNeutralTransform ==
    (project.selectedPhotoId = NULL \/ project.selectedPhotoId \notin Ids(photos)) =>
        project.photoTransform = [x |-> R(0), y |-> R(0), scale |-> R(1), rotation |-> 0]

\* C29: selecting a photo makes it the selected photo and sets photoTransform
\* to the 'fill' transform against the selected frame's mask in canvas space
\* when that frame exists and has a mask, and to {0, 0, 1, 0} otherwise;
\* selectedFrameId and textProperties are unchanged.
C29_PhotoSelectEffect ==
    [][lastOp'.op = "photoSelect" =>
          /\ project'.selectedPhotoId = lastOp'.id
          /\ project'.photoTransform =
               IF HasMask(selectedFrame)
               THEN calculateFitTransform(R(Find(photos, lastOp'.id).width),
                                          R(Find(photos, lastOp'.id).height),
                                          C10_MaskInCanvas(selectedFrame), "fill")
               ELSE [x |-> R(0), y |-> R(0), scale |-> R(1), rotation |-> 0]
          /\ project'.selectedFrameId = project.selectedFrameId
          /\ project'.textProperties = project.textProperties
      ]_vars

C29_Witness ==
    /\ lastOp.op = "photoSelect"
    /\ project.selectedPhotoId = "photoB"
    /\ HasMask(selectedFrame)
    /\ project.photoTransform =
         calculateFitTransform(R(400), R(300), C10_MaskInCanvas(selectedFrame), "fill")
    /\ project.photoTransform.scale # R(1)

C22_Record(v) == [state |-> "valid", value |-> v]

\* C22: a step that changes the frame collection, the photo collection or the
\* project rewrites the corresponding record, and once the application is
\* mounted the three records equal the values in memory.
C22_PersistedFollowsState ==
    [][/\ frames' # frames => storage'.frames = C22_Record(frames')
       /\ photos' # photos => storage'.photos = C22_Record(photos')
       /\ project' # project => storage'.project = C22_Record(project')
       /\ boot'.stage # "start" =>
            /\ storage'.frames = C22_Record(frames')
            /\ storage'.photos = C22_Record(photos')
            /\ storage'.project = C22_Record(project')
      ]_vars

C22_Witness ==
    /\ lastOp.op = "frameUploadComplete"
    /\ Len(frames) = 2
    /\ storage.frames = C22_Record(frames)
    /\ project.selectedFrameId # NULL
    /\ storage.project = C22_Record(project)

\* C25: the completion of an upload batch or of the default-frame bootstrap
\* keeps every frame and every photo that is in its collection.
C25_CompletionKeepsAssets ==
    [][lastOp'.op \in {"frameUploadComplete", "photoUploadComplete", "defaultFrameLoaded"} =>
          /\ Ids(frames) \subseteq Ids(frames')
          /\ Ids(photos) \subseteq Ids(photos')
      ]_vars

\* C28: the photo node is drawn at the stored transform: at size
\* (photo.width * scale, photo.height * scale) and position (x, y), each
\* multiplied by displayScale.
C28_DrawnAtStoredTransform ==
    (selectedFrame # NotFound /\ selectedPhoto # NotFound) =>
        LET t == project.photoTransform
            mask == getMaskInCanvas(selectedFrame)
        IN  /\ PhotoNodeSize(selectedPhoto, t, mask, displayScale) =
                  [width |-> RMul(RMul(R(selectedPhoto.width), t.scale), displayScale),
                   height |-> RMul(RMul(R(selectedPhoto.height), t.scale), displayScale)]
            /\ PhotoNodePosition(t, mask, displayScale) =
                  [x |-> RMul(t.x, displayScale), y |-> RMul(t.y, displayScale)]

-----------------------------------------------------------------------------
(* Specification SpecBoot: start-up on every stored frame collection made  *)
(* of the default frame and a frame uploaded in an earlier session, with   *)
(* frame uploads and deletions going on.                                   *)

StoredFrame == [id |-> "frameS", width |-> 108, height |-> 192, mask |-> NoMask]

BootStoredFrames ==
    StoredFrames \cup {<<StoredFrame>>, <<StoredFrame, DefaultFrame>>,
                       <<DefaultFrame, StoredFrame>>}

InitBoot ==
    /\ pc = "app"
    /\ call = NoOp
    /\ ret = NoMask
    /\ storage \in [frames : StoredItems(BootStoredFrames, <<>>),
                    photos : StoredItems(StoredPhotos, <<>>),
                    project : StoredItems({}, DefaultProject),
                    cards : {Item("missing", <<>>)}]
    /\ AppConstructed

NextBoot ==
    \/ InitializeAppStart
    \/ \E ok \in BOOLEAN : DefaultFrameLoaded(ok)
    \/ \E files \in Batches(FrameFiles) : FrameUploadStart(files)
    \/ \E outcome \in [FrameFiles -> {"ok", "null", "error"}] : FrameUploadComplete(outcome)
    \/ \E id \in Ids(frames) : handleDeleteFrame(id)
    \/ \E id \in Ids(frames) : handleFrameSelect(id)

SpecBoot == InitBoot /\ [][NextBoot]_vars

\* the frame collection persisted by the last session
C18_Persisted == IF storage.frames.state = "valid" THEN storage.frames.value ELSE <<>>

C18_DefaultId == "default-caissa-frame"

C18_HasDefault(collection) == \E i \in 1..Len(collection) : collection[i].id = C18_DefaultId

\* C18: at start-up, when the persisted collection has no frame with the
\* default id and the bundled frame loads, the collection becomes the default
\* frame with its predefined mask followed by the persisted frames; when it
\* has one, the collection is exactly the persisted frames; the collection
\* never holds two frames with the default id.
C18_BootstrapFrames ==
    [][/\ (lastOp'.op = "initializeApp" /\ C18_HasDefault(C18_Persisted)) =>
            frames' = C18_Persisted
       /\ (lastOp'.op = "initializeApp" /\ ~C18_HasDefault(C18_Persisted)) =>
            boot'.savedFrames = C18_Persisted
       /\ (lastOp'.op = "defaultFrameLoaded" /\ lastOp'.ok) =>
            /\ frames' = <<[id |-> C18_DefaultId, width |-> 576, height |-> 1024,
                             mask |-> [type |-> "rectangle", x |-> R(86), y |-> R(235),
                                       width |-> R(400), height |-> R(385)]]>>
                          \o boot.savedFrames
       /\ Cardinality({i \in 1..Len(frames') : frames'[i].id = C18_DefaultId}) <= 1
      ]_vars

C18_Witness ==
    /\ lastOp.op = "defaultFrameLoaded"
    /\ lastOp.ok
    /\ Len(frames) = 2
    /\ frames[1] = DefaultFrame
    /\ frames[2].id = "frameS"

\* the ids of the assets in a persisted record
C27_Stored(item) == IF item.state = "valid" THEN Ids(item.value) ELSE {}

\* C27: while the default frame is being fetched, the persisted frame and
\* photo collections contain every asset initializeApp loaded from them.
C27_StartupKeepsPersisted ==
    boot.stage = "fetching" =>
        /\ Ids(boot.savedFrames) \subseteq C27_Stored(storage.frames)
        /\ Ids(boot.savedPhotos) \subseteq C27_Stored(storage.photos)

-----------------------------------------------------------------------------
(* MaskEditor.tsx and App.handleMaskSave.  The editor is rendered while      *)
(* editingMaskFrameId names a frame of the collection.  The rectangle node  *)
(* is drawn at the mask multiplied by the editor's scale; a resize leaves   *)
(* the node at the box boundBoxFunc returned, a drag at the dropped         *)
(* position, and the handlers read the node back.                           *)

editingFrame == Find(frames, maskEditor.frameId)

EditorOpen == Mounted /\ maskEditor.frameId # NULL /\ editingFrame # NotFound

\* useState initialiser of the editor's mask
InitialEditorMask(frame) ==
    IF HasMask(frame) THEN frame.mask
    ELSE Rectangle(RMul(R(frame.width), Rat(15, 100)), RMul(R(frame.height), Rat(15, 100)),
                   RMul(R(frame.width), Rat(7, 10)), RMul(R(frame.height), Rat(5, 10)))

\* scale of the editor's stage
EditorScale(frame, size) ==
    RMin(RMin(RDiv(R(size.width - 40), R(frame.width)),
              RDiv(R(size.height - 40), R(frame.height))),
         R(1))

Box(x, y, w, h) == [x |-> x, y |-> y, width |-> w, height |-> h]

\* the props of the Rect node
MaskRect(mask, scale) ==
    Box(RMul(mask.x, scale), RMul(mask.y, scale),
        RMul(mask.width, scale), RMul(mask.height, scale))

boundBoxFunc_any(oldBox, newBox) == newBox

boundBoxFunc(oldBox, newBox) ==
    IF RLt(newBox.width, R(50)) \/ RLt(newBox.height, R(50)) THEN oldBox ELSE newBox

\* the editor button of a frame card: setEditingMaskFrameId, and the editor
\* mounts with the size of its container
handleEditMask(frameId, size) ==
    /\ Mounted
    /\ ~EditorOpen
    /\ frameId \in Ids(frames)
    /\ maskEditor' = [frameId |-> frameId,
                      mask |-> InitialEditorMask(Find(frames, frameId)),
                      containerSize |-> size]
    /\ lastOp' = [op |-> "editMask", id |-> frameId]
    /\ UNCHANGED <<pc, call, ret, frames, photos, project, containerSize, boot,
                   frameUpload, photoUpload, edits, storage, modal, images, now>>

\* the end of a resize in which the transformer proposed newBox
handleTransformEnd(newBox) ==
    /\ EditorOpen
    /\ edits < MaxEdits
    /\ LET scale == EditorScale(editingFrame, maskEditor.containerSize)
           node == MaskRect(maskEditor.mask, scale)
           box == boundBoxFunc(node, newBox)
           scaleX == RDiv(box.width, node.width)
           scaleY == RDiv(box.height, node.height)
       IN  maskEditor' = [maskEditor EXCEPT !.mask =
               Rectangle(RDiv(box.x, scale), RDiv(box.y, scale),
                         RDiv(RMul(node.width, scaleX), scale),
                         RDiv(RMul(node.height, scaleY), scale))]
    /\ edits' = edits + 1
    /\ lastOp' = [op |-> "maskTransform", box |-> newBox]
    /\ UNCHANGED <<pc, call, ret, frames, photos, project, containerSize, boot,
                   frameUpload, photoUpload, storage, modal, images, now>>

\* the end of a drag that dropped the node at pos
handleDragEnd(pos) ==
    /\ EditorOpen
    /\ edits < MaxEdits
    /\ LET scale == EditorScale(editingFrame, maskEditor.containerSize)
       IN  maskEditor' = [maskEditor EXCEPT !.mask.x = RDiv(pos.x, scale),
                                            !.mask.y = RDiv(pos.y, scale)]
    /\ edits' = edits + 1
    /\ lastOp' = [op |-> "maskDrag", pos |-> pos]
    /\ UNCHANGED <<pc, call, ret, frames, photos, project, containerSize, boot,
                   frameUpload, photoUpload, storage, modal, images, now>>

\* setFrames of handleMaskSave
MaskSaveFrames(prev, frameId, mask) ==
    [i \in 1..Len(prev) |->
        IF prev[i].id = frameId THEN [prev[i] EXCEPT !.mask = mask] ELSE prev[i]]

MaskSaveProject_keep(prev, frameId, mask) == prev

\* setProject of handleMaskSave
MaskSaveProject(prev, frameId, mask) ==
    LET frame == Find(frames, frameId)
    IN  IF frameId = project.selectedFrameId /\ selectedPhoto # NotFound /\ frame # NotFound
        THEN [prev EXCEPT !.photoTransform =
                 calculateFitTransform(R(selectedPhoto.width), R(selectedPhoto.height),
                                       ScaledMask(frame, mask), "fill")]
        ELSE prev

\* MaskEditor.handleSave: onSave(mask), which is App.handleMaskSave, then onClose
handleSave ==
    /\ EditorOpen
    /\ frames' = MaskSaveFrames(frames, maskEditor.frameId, maskEditor.mask)
    /\ project' = MaskSaveProject(project, maskEditor.frameId, maskEditor.mask)
    /\ maskEditor' = NoEditor
    /\ lastOp' = [op |-> "maskSave", id |-> maskEditor.frameId, mask |-> maskEditor.mask]
    /\ UNCHANGED <<pc, call, ret, photos, containerSize, boot,
                   frameUpload, photoUpload, edits, modal, now>>
    /\ RunSaveEffects
    /\ RunImageEffects

\* the Cancel button: onClose
handleCancel ==
    /\ EditorOpen
    /\ maskEditor' = NoEditor
    /\ lastOp' = [op |-> "maskCancel"]
    /\ UNCHANGED <<pc, call, ret, frames, photos, project, containerSize, boot,
                   frameUpload, photoUpload, edits, storage, modal, images, now>>

\* the container of the editor, the boxes a resize proposes (the second has
\* the minimum size, the third is too narrow, the fourth is flipped) and the
\* position a drag drops the rectangle at
EditorSizes == {[width |-> 600, height |-> 800]}
ResizeBoxes == {Box(R(10), R(20), R(60), R(80)), Box(R(0), R(0), R(50), R(50)),
                Box(R(5), R(5), R(49), R(120)), Box(R(30), R(30), R(-60), R(70))}
DropPositions == {[x |-> R(-8), y |-> R(12)]}

-----------------------------------------------------------------------------
(* Specification SpecMask: a session in which the user uploads one frame    *)
(* file, selects and deletes frames, selects a photo, and edits and saves  *)
(* masks.                                                                   *)

InitMask ==
    /\ pc = "app"
    /\ call = NoOp
    /\ ret = NoMask
    /\ storage \in [frames : {Item("missing", <<>>), Item("valid", <<DefaultFrame>>)},
                    photos : {Item("valid", <<PhotoOf("photoA")>>)},
                    project : {Item("missing", DefaultProject)},
                    cards : {Item("missing", <<>>)}]
    /\ AppConstructed

NextMask ==
    \/ InitializeAppStart
    \/ \E ok \in BOOLEAN : DefaultFrameLoaded(ok)
    \/ \E f \in MaskFrameFiles : frameUpload.used = {} /\ FrameUploadStart(<<f>>)
    \/ \E outcome \in [MaskFrameFiles -> {"ok", "null"}] : FrameUploadComplete(outcome)
    \/ \E id \in Ids(frames) : handleFrameSelect(id)
    \/ \E id \in Ids(photos) : handlePhotoSelect(id)
    \/ \E id \in Ids(frames) : handleDeleteFrame(id)
    \/ \E id \in Ids(frames), size \in EditorSizes : handleEditMask(id, size)
    \/ \E newBox \in ResizeBoxes : handleTransformEnd(newBox)
    \/ \E pos \in DropPositions : handleDragEnd(pos)
    \/ handleSave
    \/ handleCancel

SpecMask == InitMask /\ [][NextMask]_vars

C23_Positive(mask) ==
    mask.type = "rectangle" => RGt(mask.width, R(0)) /\ RGt(mask.height, R(0))

\* C23: every mask stored on a frame of the collection has a positive width
\* and a positive height, whatever detections, resizes, drags and saves
\* produced it.
C23_StoredMasksPositive ==
    \A i \in 1..Len(frames) : C23_Positive(frames[i].mask)

\* the fallback mask of a detection was resized to the minimum box, dragged
\* and saved
C23_Witness ==
    /\ lastOp.op = "maskSave"
    /\ lastOp.id = "frameN"
    /\ DetectedMask["frameN"] = FallbackMask(108, 192)
    /\ DetectedMask["frameA"] = Rectangle(R(14), R(24), R(79), R(109))
    /\ Find(frames, "frameN").mask = Rectangle(R(-8), R(12), R(50), R(50))

C30_Saved == lastOp'.op = "maskSave"

C30_FillOnNewMask ==
    LET F == Find(frames, lastOp'.id)
        photo == Find(photos, project.selectedPhotoId)
    IN  calculateFitTransform(R(photo.width), R(photo.height),
                              C10_MaskInCanvas([F EXCEPT !.mask = lastOp'.mask]), "fill")

\* C30: a mask save for frame F replaces F's mask and nothing else in the
\* collection; it sets photoTransform to the fill transform against the new
\* mask in canvas space when F is the selected frame and a photo is selected,
\* and leaves the project as it is otherwise; the selection ids and the text
\* never change.
C30_MaskSaveEffect ==
    [][C30_Saved =>
          /\ Len(frames') = Len(frames)
          /\ \A i \in 1..Len(frames) :
                 frames'[i] = IF frames[i].id = lastOp'.id
                              THEN [frames[i] EXCEPT !.mask = lastOp'.mask]
                              ELSE frames[i]
          /\ project' = IF /\ lastOp'.id = project.selectedFrameId
                           /\ Find(photos, project.selectedPhotoId) # NotFound
                        THEN [project EXCEPT !.photoTransform = C30_FillOnNewMask]
                        ELSE project
          /\ project'.selectedFrameId = project.selectedFrameId
          /\ project'.selectedPhotoId = project.selectedPhotoId
          /\ project'.textProperties = project.textProperties
      ]_vars

\* the mask of the selected frame was saved with a photo selected, and the
\* transform moved to the new mask
C30_Witness ==
    /\ lastOp.op = "maskSave"
    /\ lastOp.id = project.selectedFrameId
    /\ lastOp.id = "default-caissa-frame"
    /\ selectedPhoto # NotFound
    /\ lastOp.mask # DefaultFrame.mask
    /\ Len(frames) = 2
    /\ project.photoTransform =
          calculateFitTransform(R(300), R(400), C10_MaskInCanvas(selectedFrame), "fill")
    /\ project.photoTransform #
          calculateFitTransform(R(300), R(400), C10_MaskInCanvas(DefaultFrame), "fill")

\* C26: a frame the user deleted is not in the collection after the
\* completion of an upload that follows the deletion, and a mask the user
\* saved is still the frame's mask after the completion of an upload that
\* follows the save.
C26_CompletionKeepsUserChanges ==
    [][lastOp'.op = "frameUploadComplete" =>
          /\ lastOp.op = "frameDelete" => lastOp.id \notin Ids(frames')
          /\ (lastOp.op = "maskSave" /\ lastOp.id \in Ids(frames')) =>
                 Find(frames', lastOp.id).mask = lastOp.mask
      ]_vars

-----------------------------------------------------------------------------
(* Specification SpecDecode: a session in which the user uploads and        *)
(* selects frames and photos while the images of the selected assets are   *)
(* decoded; a decode stays in flight until its onload runs, and the onload *)
(* handlers of the decodes in flight run in any order.                     *)

InitDecode ==
    /\ pc = "app"
    /\ call = NoOp
    /\ ret = NoMask
    /\ storage \in InitialStorage
    /\ AppConstructedWith(FALSE)

NextDecode ==
    \/ InitializeAppStart
    \/ \E ok \in BOOLEAN : DefaultFrameLoaded(ok)
    \/ \E files \in Batches(FrameFiles) : FrameUploadStart(files)
    \/ \E outcome \in [FrameFiles -> {"ok", "null", "error"}] : FrameUploadComplete(outcome)
    \/ \E files \in Batches(PhotoFiles) : PhotoUploadStart(files)
    \/ \E outcome \in [PhotoFiles -> {"ok", "error"}] : PhotoUploadComplete(outcome)
    \/ \E id \in Ids(frames) : handleFrameSelect(id)
    \/ \E id \in Ids(photos) : handlePhotoSelect(id)
    \/ \E id \in images.frameLoads : FrameImageLoaded(id)
    \/ \E id \in images.photoLoads : PhotoImageLoaded(id)

SpecDecode == InitDecode /\ [][NextDecode]_vars

\* C21: once no decode is in flight, the frame image and the photo image the
\* compositor holds are those of the selected frame and of the selected photo.
C21_SettledImageIsSelected ==
    /\ (images.frameLoads = {} /\ selectedFrame # NotFound) =>
           images.frameImage = selectedFrame.id
    /\ (images.photoLoads = {} /\ selectedPhoto # NotFound) =>
           images.photoImage = selectedPhoto.id

-----------------------------------------------------------------------------
(* Specification SpecExportRatio: the pixel ratio of an export, for stages *)
(* of every integer size up to 2 * MaxDim + 2, the 270x480 stage, and the  *)
(* stages CardComposerCanvas renders in the containers of ContainerSizes.  *)

ContainerScale(size) ==
    RMin(RMin(RDiv(R(size.width), R(CANVAS_WIDTH)), RDiv(R(size.height), R(CANVAS_HEIGHT))),
         R(1))

RenderedSizes ==
    {[width |-> R(w), height |-> R(h)] : w \in 1..(2 * MaxDim + 2), h \in 1..(2 * MaxDim + 2)}
    \cup {[width |-> R(270), height |-> R(480)]}
    \cup {StageSize(ContainerScale(size)) : size \in ContainerSizes}

NoRatio == [pixelRatio |-> R(0)]

InitExportRatio ==
    /\ pc = "ready"
    /\ call \in RenderedSizes
    /\ ret = NoRatio
    /\ storage = EmptyStorage
    /\ AppConstructed

CallExportPixelRatio ==
    /\ pc = "ready"
    /\ pc' = "done"
    /\ ret' = [pixelRatio |-> ExportPixelRatio(call.width, call.height)]
    /\ UNCHANGED <<call, appVars>>

NextExportRatio == CallExportPixelRatio

SpecExportRatio == InitExportRatio /\ [][NextExportRatio]_vars

RatioDone == pc = "done"

\* C16: the export pixel ratio is max(1080/renderedWidth, 1920/renderedHeight),
\* so the rendered size times the ratio is at least 1080 x 1920; for a
\* 270x480 stage the ratio is 4 and the output is exactly 1080x1920.
C16_ExportCoversCanvas ==
    RatioDone =>
        /\ ret.pixelRatio = RMax(RDiv(R(1080), call.width), RDiv(R(1920), call.height))
        /\ RGe(RMul(call.width, ret.pixelRatio), R(1080))
        /\ RGe(RMul(call.height, ret.pixelRatio), R(1920))
        /\ (call.width = R(270) /\ call.height = R(480)) =>
               /\ ret.pixelRatio = R(4)
               /\ RMul(call.width, ret.pixelRatio) = R(1080)
               /\ RMul(call.height, ret.pixelRatio) = R(1920)

C16_Witness ==
    /\ RatioDone
    /\ call.width = R(270)
    /\ call.height = R(480)
    /\ ret.pixelRatio = R(4)

-----------------------------------------------------------------------------
(* Specification SpecMaskConvert: the conversion of a mask from frame      *)
(* space to canvas space, for frames of every size up to MaxDim, the sizes *)
(* of the frames the application is run with, and a landscape frame.       *)

FrameSizes ==
    {[width |-> w, height |-> h] : w \in 1..MaxDim, h \in 1..MaxDim}
    \cup {[width |-> 576, height |-> 1024], [width |-> 108, height |-> 192],
          [width |-> 1920, height |-> 1080]}

MaskCalls ==
    [frame : FrameSizes, x : {0, 2, 86}, y : {0, 3, 235}, width : {1, 400}, height : {1, 385}]

InitMaskConvert ==
    /\ pc = "ready"
    /\ call \in MaskCalls
    /\ ret = NoMask
    /\ storage = EmptyStorage
    /\ AppConstructed

MaskOfCall == Rectangle(R(call.x), R(call.y), R(call.width), R(call.height))

CallScaledMask ==
    /\ pc = "ready"
    /\ pc' = "done"
    /\ ret' = ScaledMask(call.frame, MaskOfCall)
    /\ UNCHANGED <<call, appVars>>

NextMaskConvert == CallScaledMask

SpecMaskConvert == InitMaskConvert /\ [][NextMaskConvert]_vars

MaskConvertDone == pc = "done"

\* the inverse of the conversion as the specification gives it
C17_ToFrameSpace(frame, m) ==
    LET frameScale == RMin(RDiv(R(1080), R(frame.width)), RDiv(R(1920), R(frame.height)))
        offsetX == RDiv(RSub(R(1080), RMul(R(frame.width), frameScale)), R(2))
        offsetY == RDiv(RSub(R(1920), RMul(R(frame.height), frameScale)), R(2))
    IN  [type |-> "rectangle",
         x |-> RDiv(RSub(m.x, offsetX), frameScale),
         y |-> RDiv(RSub(m.y, offsetY), frameScale),
         width |-> RDiv(m.width, frameScale),
         height |-> RDiv(m.height, frameScale)]

\* C17: a mask converted from frame space to canvas space and back through
\* the inverse of the same scale and offsets is the original mask.
C17_MaskRoundTrip ==
    MaskConvertDone => C17_ToFrameSpace(call.frame, ret) = MaskOfCall

C17_Witness ==
    /\ MaskConvertDone
    /\ call.frame = [width |-> 1920, height |-> 1080]
    /\ ret # MaskOfCall
    /\ ret.y # RMul(R(call.y), FrameScale(call.frame))
    /\ C17_ToFrameSpace(call.frame, ret) = MaskOfCall

-----------------------------------------------------------------------------
(* App.tsx: handleSaveCard, and specification SpecCards: a session in      *)
(* which the user selects a frame and a photo and saves cards.  The clock  *)
(* is read once per card, so card ids are distinct and increasing.         *)

TrimCards_none(savedCards) == savedCards

\* if (savedCards.length > 20) savedCards.pop()
TrimCards(savedCards) ==
    IF Len(savedCards) > 20 THEN SubSeq(savedCards, 1, Len(savedCards) - 1) ELSE savedCards

\* the body of the try block: toDataURL throws or not, the stored list is
\* parsed, the new card is put first, the list is trimmed and written
SaveCardAttempt(rasterOk, writable) ==
    LET size == StageSize(displayScale)
        pixelRatio == ExportPixelRatio(size.width, size.height)
        item == getItem(storage.cards, TRUE).value
        parsed == IF Truthy(item) THEN JSONparse(item) ELSE Return(<<>>)
        newCard == [id |-> now + 1, pixelRatio |-> pixelRatio,
                    frameId |-> project.selectedFrameId,
                    photoId |-> project.selectedPhotoId]
    IN  IF ~rasterOk THEN Throw
        ELSE IF parsed.thrown THEN Throw
        ELSE setItem(storage, "cards", TrimCards(<<newCard>> \o parsed.value), writable)

\* the Save button is enabled while a frame and a photo are selected; the
\* stage exists while a frame is selected
handleSaveCard(rasterOk, writable) ==
    /\ Mounted
    /\ now < MaxSaves
    /\ selectedFrame # NotFound
    /\ selectedPhoto # NotFound
    /\ LET attempt == SaveCardAttempt(rasterOk, writable)
       IN  /\ storage' = Catch(attempt, storage).value
           /\ now' = IF attempt.thrown THEN now ELSE now + 1
           /\ lastOp' = [op |-> "saveCard",
                         alert |-> IF attempt.thrown THEN "error" ELSE "saved"]
    /\ UNCHANGED <<pc, call, ret, frames, photos, project, containerSize, boot,
                   frameUpload, photoUpload, edits, modal,
                   maskEditor, images>>

InitCards ==
    /\ pc = "app"
    /\ call = NoOp
    /\ ret = NoMask
    /\ storage \in [frames : StoredItems(StoredFrames, <<>>),
                    photos : StoredItems(StoredPhotos, <<>>),
                    project : StoredItems({}, DefaultProject),
                    cards : StoredItems({}, <<>>)]
    /\ AppConstructed

NextCards ==
    \/ InitializeAppStart
    \/ \E ok \in BOOLEAN : DefaultFrameLoaded(ok)
    \/ \E id \in Ids(frames) : handleFrameSelect(id)
    \/ \E id \in Ids(photos) : handlePhotoSelect(id)
    \/ \E rasterOk \in BOOLEAN, writable \in BOOLEAN : handleSaveCard(rasterOk, writable)

SpecCards == InitCards /\ [][NextCards]_vars

\* the saved-card list in localStorage
C13_Cards == storage.cards.value

C13_Saved == lastOp'.op = "saveCard" /\ lastOp'.alert = "saved"

\* C13: the saved-card list never holds more than 20 cards; a save puts the
\* new card first, keeps the others in order, and drops exactly the last
\* (oldest) card when the list already held 20.
C13_SavedCardsCapped ==
    [][/\ Len(C13_Cards') <= 20
       /\ C13_Saved =>
            /\ C13_Cards'[1].id = now'
            /\ C13_Cards'[1].frameId = project.selectedFrameId
            /\ C13_Cards'[1].photoId = project.selectedPhotoId
            /\ \A i \in 1..Len(C13_Cards) : C13_Cards'[1].id > C13_Cards[i].id
            /\ Len(C13_Cards) < 20 => SubSeq(C13_Cards', 2, Len(C13_Cards')) = C13_Cards
            /\ Len(C13_Cards) = 20 =>
                 SubSeq(C13_Cards', 2, 20) = SubSeq(C13_Cards, 1, 19)
      ]_vars

C13_Witness ==
    /\ lastOp.op = "saveCard"
    /\ lastOp.alert = "saved"
    /\ Len(C13_Cards) = 20
    /\ C13_Cards[1].id = 21
    /\ C13_Cards[20].id = 2

-----------------------------------------------------------------------------
(* types.ts (ExportModal): generateHighQualityExport, handleExportPNG and  *)
(* handleExportPDF, and specification SpecExport: a session in which the   *)
(* user uploads, selects and deletes frames and photos and exports.        *)

NoStage == [exists |-> FALSE]

\* stageRef.current: the Stage is rendered while a frame is selected
stageRef ==
    IF selectedFrame # NotFound
    THEN [exists |-> TRUE, width |-> StageSize(displayScale).width,
          height |-> StageSize(displayScale).height]
    ELSE NoStage

NoImage == [type |-> "null"]

\* null without a stage or when toDataURL throws, the data URL otherwise
generateHighQualityExport(stage, rasterOk) ==
    IF ~stage.exists
    THEN NoImage
    ELSE Catch(IF rasterOk
               THEN Return([type |-> "png",
                            pixelRatio |-> ExportPixelRatio(stage.width, stage.height),
                            width |-> stage.width, height |-> stage.height])
               ELSE Throw,
               NoImage).value

AfterExport_stuck(attempt) == attempt.thrown

\* finally { setIsExporting(false) }
AfterExport(attempt) == FALSE

\* one run of handleExportPNG or handleExportPDF: what it leaves in
\* isExporting, whether it alerted, whether it handed a file to the browser
ExportRun(stage, format, rasterOk, pdfOk) ==
    IF ~stage.exists
    THEN [isExporting |-> modal.isExporting, alert |-> FALSE, downloaded |-> FALSE]
    ELSE LET dataUrl == generateHighQualityExport(stage, rasterOk)
             attempt == IF dataUrl = NoImage THEN Throw
                        ELSE IF format = "pdf" /\ ~pdfOk THEN Throw
                        ELSE Return(dataUrl)
         IN  [isExporting |-> AfterExport(attempt), alert |-> attempt.thrown,
              downloaded |-> ~attempt.thrown]

\* the Export button is enabled while a frame is selected; the modal
\* generates its preview when it mounts
OpenExportModal(rasterOk) ==
    /\ Mounted
    /\ ~modal.open
    /\ selectedFrame # NotFound
    /\ modal' = [open |-> TRUE, isExporting |-> FALSE]
    /\ lastOp' = [op |-> "openExport",
                  preview |-> generateHighQualityExport(stageRef, rasterOk)]
    /\ UNCHANGED <<pc, call, ret, frames, photos, project, containerSize, boot,
                   frameUpload, photoUpload, edits, storage, now,
                   maskEditor, images>>

CloseExportModal ==
    /\ pc = "app"
    /\ modal.open
    /\ modal' = [open |-> FALSE, isExporting |-> FALSE]
    /\ lastOp' = [op |-> "closeExport"]
    /\ UNCHANGED <<pc, call, ret, frames, photos, project, containerSize, boot,
                   frameUpload, photoUpload, edits, storage, now,
                   maskEditor, images>>

\* the export buttons are disabled while isExporting
handleExport(format, rasterOk, pdfOk) ==
    /\ pc = "app"
    /\ modal.open
    /\ ~modal.isExporting
    /\ LET run == ExportRun(stageRef, format, rasterOk, pdfOk)
       IN  /\ modal' = [modal EXCEPT !.isExporting = run.isExporting]
           /\ lastOp' = [op |-> "export", format |-> format, stage |-> stageRef.exists,
                         rasterOk |-> rasterOk, alert |-> run.alert,
                         downloaded |-> run.downloaded,
                         result |-> generateHighQualityExport(stageRef, rasterOk)]
    /\ UNCHANGED <<pc, call, ret, frames, photos, project, containerSize, boot,
                   frameUpload, photoUpload, edits, storage, now,
                   maskEditor, images>>

NextExport ==
    \/ InitializeAppStart
    \/ \E ok \in BOOLEAN : DefaultFrameLoaded(ok)
    \/ \E files \in Batches(FrameFiles) : FrameUploadStart(files)
    \/ \E outcome \in [FrameFiles -> {"ok", "null", "error"}] : FrameUploadComplete(outcome)
    \/ \E id \in Ids(frames) : handleDeleteFrame(id)
    \/ \E id \in Ids(photos) : handleDeletePhoto(id)
    \/ \E id \in Ids(frames) : handleFrameSelect(id)
    \/ \E id \in Ids(photos) : handlePhotoSelect(id)
    \/ \E rasterOk \in BOOLEAN : OpenExportModal(rasterOk)
    \/ CloseExportModal
    \/ \E format \in {"png", "pdf"}, rasterOk \in BOOLEAN, pdfOk \in BOOLEAN :
          handleExport(format, rasterOk, pdfOk)

SpecExport == Init /\ [][NextExport]_vars

\* an export was asked for that cannot be produced
C20_CannotExport == lastOp'.op = "export" /\ (~lastOp'.stage \/ ~lastOp'.rasterOk)

\* C20: when an export cannot be produced (no render target, or the
\* rasterization throws) the export yields the failure result and no file,
\* the project and the asset collections are unchanged, and isExporting is
\* false afterwards with the modal still open, so the export can be retried.
C20_FailedExportRecovers ==
    [][C20_CannotExport =>
          /\ lastOp'.result = [type |-> "null"]
          /\ ~lastOp'.downloaded
          /\ (lastOp'.stage => lastOp'.alert)
          /\ project' = project
          /\ frames' = frames
          /\ photos' = photos
          /\ modal'.open
          /\ ~modal'.isExporting
      ]_vars

C20_Witness ==
    /\ lastOp.op = "export"
    /\ lastOp.stage
    /\ ~lastOp.rasterOk
    /\ lastOp.alert
    /\ project.selectedFrameId # NULL
    /\ ~modal.isExporting

-----------------------------------------------------------------------------
(* Specification SpecStorage: one call of a function of utils/storage.ts,  *)
(* on every state of the three keys, with localStorage readable or not and *)
(* writable or not.                                                        *)

LoadFunctions == {"loadFrames", "loadPhotos", "loadProject"}
SaveFunctions == {"saveFrames", "savePhotos", "saveProject"}

\* a project saved by an earlier session
PersistedProject ==
    [DefaultProject EXCEPT !.selectedFrameId = "default-caissa-frame",
                           !.selectedPhotoId = "photoA",
                           !.photoTransform.scale = Rat(3, 2)]

StorageStates ==
    [frames : StoredItems(StoredFrames, <<>>) \cup {Item("empty", <<>>)},
     photos : StoredItems(StoredPhotos, <<>>) \cup {Item("empty", <<>>)},
     project : StoredItems({PersistedProject}, DefaultProject)
                  \cup {Item("empty", DefaultProject)},
     cards : {Item("missing", <<>>)}]

StorageCalls ==
    [fn : LoadFunctions, readable : BOOLEAN, writable : BOOLEAN, arg : {"none"}]
    \cup [fn : SaveFunctions, readable : BOOLEAN, writable : BOOLEAN, arg : {"none", "some"}]

InitStorage ==
    /\ pc = "ready"
    /\ call \in StorageCalls
    /\ ret = Return(NULL)
    /\ storage \in StorageStates
    /\ AppConstructed

CallLoad ==
    /\ pc = "ready"
    /\ call.fn \in LoadFunctions
    /\ pc' = "done"
    /\ ret' = CASE call.fn = "loadFrames" -> loadFrames(storage, call.readable)
                 [] call.fn = "loadPhotos" -> loadPhotos(storage, call.readable)
                 [] call.fn = "loadProject" -> loadProject(storage, call.readable)
    /\ UNCHANGED <<call, appVars>>

\* the value a save function is called with
SaveArgument ==
    CASE call.fn = "saveFrames" -> IF call.arg = "none" THEN <<>> ELSE <<DefaultFrame>>
      [] call.fn = "savePhotos" -> IF call.arg = "none" THEN <<>> ELSE <<PhotoOf("photoA")>>
      [] call.fn = "saveProject" -> IF call.arg = "none" THEN DefaultProject ELSE PersistedProject

CallSave ==
    /\ pc = "ready"
    /\ call.fn \in SaveFunctions
    /\ pc' = "done"
    /\ LET result == CASE call.fn = "saveFrames" -> saveFrames(storage, SaveArgument, call.writable)
                        [] call.fn = "savePhotos" -> savePhotos(storage, SaveArgument, call.writable)
                        [] call.fn = "saveProject" -> saveProject(storage, SaveArgument, call.writable)
       IN  /\ ret' = [thrown |-> result.thrown, value |-> "undefined"]
           /\ storage' = IF result.thrown THEN storage ELSE result.value
    /\ UNCHANGED <<call, frames, photos, project, containerSize, boot,
                   frameUpload, photoUpload, edits, modal, now, lastOp,
                   maskEditor, images>>

NextStorage == CallLoad \/ CallSave

SpecStorage == InitStorage /\ [][NextStorage]_vars

StorageDone == pc = "done"

\* the key is missing, reading it fails or parsing it fails
C19_NothingToLoad(item) ==
    item.state = "missing" \/ ~call.readable \/ item.state = "corrupt"

\* the default project as the specification gives it
C19_DefaultProject ==
    [selectedFrameId |-> NULL, selectedPhotoId |-> NULL,
     photoTransform |-> [x |-> R(0), y |-> R(0), scale |-> R(1), rotation |-> 0],
     textProperties |-> DEFAULT_TEXT_PROPERTIES]

\* C19: no load or save function throws to its caller; loadFrames and
\* loadPhotos return the empty collection and loadProject the default project
\* whenever the key is missing or reading or parsing it fails.
C19_LoadsFallBack ==
    StorageDone =>
        /\ ~ret.thrown
        /\ (call.fn = "loadFrames" /\ C19_NothingToLoad(storage.frames)) => ret.value = <<>>
        /\ (call.fn = "loadPhotos" /\ C19_NothingToLoad(storage.photos)) => ret.value = <<>>
        /\ (call.fn = "loadProject" /\ C19_NothingToLoad(storage.project)) =>
               ret.value = C19_DefaultProject

C19_Witness ==
    /\ StorageDone
    /\ call.fn = "loadProject"
    /\ call.readable
    /\ storage.project.state = "corrupt"
    /\ ret = Return(C19_DefaultProject)

====
